---- MODULE Spec2Model ----
(***************************************************************************)
(* A model of storage_helper (src/storage_helper/__init__.py): the URI and *)
(* key normalisation functions, and the file operations over one Azure     *)
(* blob container.  Python strings are sequences of one-character strings. *)
(***************************************************************************)
EXTENDS Naturals, Sequences, FiniteSets, TLC

VARIABLES
    store,   \* the container: blob name -> [data, copy, from]
    conn,    \* the connection descriptor the caller passes to every call
    call,    \* the operation in progress or last finished, with its outcome
    pin,     \* input of the pure-function specification
    pout     \* the function applied to pin and its value

vars == <<store, conn, call, pin, pout>>

----------------------------------------------------------------------------
(* Python str methods *)

StartsWith(s, p) == Len(p) <= Len(s) /\ SubSeq(s, 1, Len(p)) = p

EndsWith(s, p) == Len(p) <= Len(s) /\ SubSeq(s, Len(s) - Len(p) + 1, Len(s)) = p

\* s[n:]
Drop(s, n) == SubSeq(s, n + 1, Len(s))

\* x in s, for a one-character x
Contains(s, ch) == \E i \in 1..Len(s) : s[i] = ch

\* s.replace(old, new): every non-overlapping occurrence, left to right
RECURSIVE Replace(_, _, _)
Replace(s, old, new) ==
    IF s = <<>> THEN <<>>
    ELSE IF StartsWith(s, old) THEN new \o Replace(Drop(s, Len(old)), old, new)
    ELSE <<Head(s)>> \o Replace(Tail(s), old, new)

\* s.split(ch): the pieces between the occurrences of ch, the empty ones kept
RECURSIVE Split(_, _)
Split(s, ch) ==
    IF ~Contains(s, ch) THEN <<s>>
    ELSE LET i == CHOOSE j \in 1..Len(s) :
                      s[j] = ch /\ \A k \in 1..(j - 1) : s[k] # ch
         IN  <<SubSeq(s, 1, i - 1)>> \o Split(Drop(s, i), ch)

\* sep.join(parts)
RECURSIVE Join(_, _)
Join(parts, sep) ==
    IF parts = <<>> THEN <<>>
    ELSE IF Len(parts) = 1 THEN parts[1]
    ELSE parts[1] \o sep \o Join(Tail(parts), sep)

\* s.lstrip(ch)
RECURSIVE LStrip(_, _)
LStrip(s, ch) ==
    IF s # <<>> /\ Head(s) = ch THEN LStrip(Tail(s), ch) ELSE s

----------------------------------------------------------------------------
(* String literals of the source *)

SLASH == <<"/">>
S3 == <<"s", "3">>
GS == <<"g", "s">>
WASB == <<"w", "a", "s", "b">>
WASBS == <<"w", "a", "s", "b", "s">>
FTP == <<"f", "t", "p">>
SCHEME_SEP == <<":", "/", "/">>
BLOB_SUFFIX == <<".", "b", "l", "o", "b", ".", "c", "o", "r", "e", ".",
                 "w", "i", "n", "d", "o", "w", "s", ".", "n", "e", "t">>

----------------------------------------------------------------------------
(* Connection descriptors.  form is how the caller passes the descriptor:  *)
(* "str" is the JSON text of the mapping, "dict" the mapping itself.  cred *)
(* says whether the credential fields of the backend are present.          *)

\* json.loads of the text of a descriptor is the descriptor as a mapping
safe_conn(c) == IF c.form = "str" THEN [c EXCEPT !.form = "dict"] ELSE c

\* the index of the first occurrence of ch in s
Index(s, ch) == CHOOSE j \in 1..Len(s) : s[j] = ch /\ \A k \in 1..(j - 1) : s[k] # ch

\* urlparse of "scheme://netloc/path": the netloc ends at the first "/"
UrlParts(scheme, rest, netloc) ==
    [bucket |-> netloc, prefix |-> LStrip(Drop(rest, Len(netloc)), "/"), scheme |-> scheme]

UrlSplit(scheme, rest) == UrlParts(scheme, rest, Split(rest, "/")[1])

UrlAt(uri, i) == UrlSplit(SubSeq(uri, 1, i - 1), Drop(uri, i + 2))

\* urlparse(uri): scheme, netloc, path.lstrip('/')
parse_cloud_storage_uri(uri) == UrlAt(uri, Index(uri, ":"))

\* lines 85-100, on the components of the URL
WasbComponents(components) ==
    [account |->
         Replace(IF Contains(components[1], "@") THEN Split(components[1], "@")[2]
                 ELSE IF Len(components) = 1 THEN components[1]
                 ELSE Split(components[1], ".")[1],
                 BLOB_SUFFIX, <<>>),
     container |->
         IF Contains(components[1], "@") THEN Split(components[1], "@")[1]
         ELSE IF Len(components) = 1 THEN <<>>
         ELSE components[2],
     path |-> Join(Drop(components, 2), SLASH)]

\* line 80 replaces "wasb://" and line 81 overwrites its result with the
\* replacement of "wasbs://" in the URL as given
parse_wasb_url(wasb_url) ==
    WasbComponents(Split(Replace(wasb_url, WASBS \o SCHEME_SEP, <<>>), "/"))

\* lines 157-163
KindOfScheme(scheme) ==
    IF scheme = S3 THEN "aws"
    ELSE IF scheme = GS THEN "google"
    ELSE IF scheme = WASBS THEN "azure"
    ELSE "None"

get_storage_client_type(c) ==
    KindOfScheme(parse_cloud_storage_uri(safe_conn(c).BUCKET_URI).scheme)

\* job_conn['BUCKET_URI'] needs a mapping: a descriptor still in its JSON text
\* is a str, and indexing it by 'BUCKET_URI' raises TypeError
TYPE_ERROR == <<"TypeError">>

safe_uri(job_conn, prefix) ==
    LET bucket_uri == job_conn.BUCKET_URI
    IN  IF job_conn.form = "str" THEN TYPE_ERROR
        ELSE IF EndsWith(bucket_uri, SLASH) THEN bucket_uri \o prefix
        ELSE bucket_uri \o SLASH \o prefix

\* lines 215-219
StripContainer(storage_type, replace_prefix, container_name) ==
    IF storage_type = "azure" /\ StartsWith(replace_prefix, container_name)
    THEN Drop(replace_prefix, Len(container_name))
    ELSE replace_prefix

\* lines 221-222 and 230-231
StripSlash(s) == IF StartsWith(s, SLASH) THEN Drop(s, 1) ELSE s

\* lines 223-224
AddSlash(s) == IF EndsWith(s, SLASH) THEN s ELSE s \o SLASH

\* lines 227-228
StripPrefix(key, replace_prefix) ==
    IF StartsWith(key, replace_prefix) THEN Drop(key, Len(replace_prefix)) ELSE key

ReplacePrefix(storage_type, bucket_uri) ==
    AddSlash(StripSlash(StripContainer(storage_type,
                                       parse_cloud_storage_uri(bucket_uri).prefix,
                                       parse_wasb_url(bucket_uri).container)))

cleanout_prefix(c, key) ==
    StripSlash(StripPrefix(key, ReplacePrefix(get_storage_client_type(c),
                                              safe_conn(c).BUCKET_URI)))

\* the backend key an operation derives for key: safe_uri, then the parse of
\* the operation's backend branch
RealKey(c, key) ==
    IF get_storage_client_type(c) = "aws"
    THEN parse_cloud_storage_uri(safe_uri(safe_conn(c), key)).prefix
    ELSE parse_wasb_url(safe_uri(safe_conn(c), key)).path

----------------------------------------------------------------------------
(* The descriptors and keys the model draws its inputs from *)

ACCOUNT == <<"a">>
CONTAINER == <<"c">>
BUCKET == <<"b">>

\* root paths of a descriptor: none, one segment, one segment that starts
\* with the container's name
Roots == { <<>>, <<"r">>, <<"c", "r">> }

\* "at": scheme://container@account.blob.core.windows.net/root
\* "path": scheme://account.blob.core.windows.net/container/root
Shapes == {"at", "path"}

Authority(scheme, shape) ==
    IF scheme \in {WASB, WASBS}
    THEN IF shape = "at" THEN CONTAINER \o <<"@">> \o ACCOUNT \o BLOB_SUFFIX
         ELSE ACCOUNT \o BLOB_SUFFIX \o SLASH \o CONTAINER
    ELSE BUCKET

BucketUri(scheme, shape, root) ==
    scheme \o SCHEME_SEP \o Authority(scheme, shape)
        \o (IF root = <<>> THEN <<>> ELSE SLASH \o root)

Desc(scheme, shape, root, form, cred) ==
    [form |-> form, BUCKET_URI |-> BucketUri(scheme, shape, root), cred |-> cred]

A_TXT == <<"a", ".", "t", "x", "t">>
B_TXT == <<"b", ".", "t", "x", "t">>
LOGS == <<"l", "o", "g", "s", "/">>

\* relative keys
Keys == { A_TXT, LOGS, LOGS \o A_TXT, LOGS \o B_TXT, <<"r">> \o SLASH \o A_TXT }

----------------------------------------------------------------------------
(* The backend: one Azure blob container.  A blob has its data (0 is the   *)
(* zero-length body), the status of the last copy written to it and the    *)
(* data that copy delivers.  A call of the SDK raises when the service     *)
(* answers with an error: the blob is missing, the request carries no      *)
(* credential, or the transport fails (fail).                              *)

MaxData == 2
Data == 1..MaxData

Blob(d) == [data |-> d, copy |-> "none", from |-> 0]

Put(st, name, blob) ==
    [n \in (DOMAIN st) \cup {name} |-> IF n = name THEN blob ELSE st[n]]

Remove(st, name) == [n \in (DOMAIN st) \ {name} |-> st[n]]

\* list_blobs(name_starts_with=p)
ListBlobs(st, p) == { n \in DOMAIN st : StartsWith(n, p) }

Return(v, st) == [out |-> "return", val |-> v, err |-> "none", store |-> st]

\* a caught exception: the handler prints or drops it and returns None
Swallow(e, st) == [out |-> "return", val |-> "None", err |-> e, store |-> st]

Raise(e, st) == [out |-> "raise", val |-> "None", err |-> e, store |-> st]

get_credentials(c) == IF c.cred THEN "key" ELSE "None"

\* the client of a descriptor: gs raises, wasbs gives a BlobServiceClient,
\* every other scheme (s3 too: the boto3 branch is commented out) falls off
\* the end of the function and gives None
ClientOfScheme(scheme) ==
    IF scheme = GS THEN "raise"
    ELSE IF scheme = WASBS THEN "BlobServiceClient"
    ELSE "None"

get_storage_client(c) ==
    ClientOfScheme(parse_cloud_storage_uri(safe_conn(c).BUCKET_URI).scheme)

NOT_SUPPORTED == "Google Cloud Storage not supported"
UNKNOWN_CLIENT == "Unknown storage client"
\* a method called on the None client
ATTRIBUTE_ERROR == "AttributeError"
\* get_blob_client of an empty blob name
VALUE_ERROR == "ValueError"
\* the service's error answer, or no answer
BACKEND_ERROR == "HttpResponseError"
\* the service's answer for a blob that does not exist
NOT_FOUND == "ResourceNotFoundError"

\* whether a request of this descriptor's client is refused or lost
Refused(c, fail) == fail \/ get_credentials(safe_conn(c)) = "None"

----------------------------------------------------------------------------
(* The single-call operations: each is given the descriptor as passed, its *)
(* arguments, the container and the backend's answer, and gives the        *)
(* outcome and the container afterwards.                                   *)

\* the mutant of list_files: the entry equal to the prefix is not left out
list_files_with_marker(c, prefix, st, fail) ==
    IF get_storage_client_type(safe_conn(c)) = "azure" /\ ~Refused(safe_conn(c), fail)
    THEN Return({ cleanout_prefix(safe_conn(c), f) :
                      f \in ListBlobs(st, parse_wasb_url(safe_uri(safe_conn(c), prefix)).path) },
                st)
    ELSE Raise(UNKNOWN_CLIENT, st)

list_files(c, prefix, st, fail) ==
    LET cn == safe_conn(c)
        storage_type == get_storage_client_type(cn)
        real_prefix == parse_wasb_url(safe_uri(cn, prefix)).path
        matching_files == ListBlobs(st, real_prefix)
        cleaned == { cleanout_prefix(cn, f) : f \in matching_files }
    IN  IF get_storage_client(cn) = "raise" THEN Raise(NOT_SUPPORTED, st)
        ELSE IF storage_type = "aws" THEN Raise(ATTRIBUTE_ERROR, st)
        ELSE IF storage_type = "azure"
        THEN IF Refused(cn, fail) THEN Raise(BACKEND_ERROR, st)
             ELSE Return({ f \in cleaned : f # prefix }, st)
        ELSE Raise(UNKNOWN_CLIENT, st)

write_file(c, key, data, st, fail) ==
    LET storage_type == get_storage_client_type(c)
        real_key == parse_wasb_url(safe_uri(c, key)).path
    IN  IF get_storage_client(c) = "raise" THEN Raise(NOT_SUPPORTED, st)
        ELSE IF safe_uri(c, key) = TYPE_ERROR THEN Swallow("TypeError", st)
        ELSE IF storage_type = "aws" THEN Swallow(ATTRIBUTE_ERROR, st)
        ELSE IF storage_type = "azure"
        THEN IF real_key = <<>> THEN Swallow(VALUE_ERROR, st)
             ELSE IF Refused(c, fail) THEN Swallow(BACKEND_ERROR, st)
             ELSE Return("None", Put(st, real_key, Blob(data)))
        ELSE Swallow(UNKNOWN_CLIENT, st)

delete_file(c, key, st, fail) ==
    LET cn == safe_conn(c)
        storage_type == get_storage_client_type(cn)
        real_key == parse_wasb_url(safe_uri(cn, key)).path
    IN  IF get_storage_client(cn) = "raise" THEN Raise(NOT_SUPPORTED, st)
        ELSE IF storage_type = "aws" THEN Swallow(ATTRIBUTE_ERROR, st)
        ELSE IF storage_type = "azure"
        THEN IF real_key = <<>> THEN Swallow(VALUE_ERROR, st)
             ELSE IF Refused(cn, fail) THEN Swallow(BACKEND_ERROR, st)
             ELSE IF real_key \notin DOMAIN st THEN Swallow(NOT_FOUND, st)
             ELSE Return("None", Remove(st, real_key))
        ELSE Swallow(UNKNOWN_CLIENT, st)

\* kept: the listed blobs whose delete_blob raised in both passes
delete_folder(c, folder_to_delete, st, fail, kept) ==
    LET cn == safe_conn(c)
        storage_type == get_storage_client_type(cn)
        folder == IF EndsWith(folder_to_delete, SLASH) THEN folder_to_delete
                  ELSE folder_to_delete \o SLASH
        real_key == parse_wasb_url(safe_uri(cn, folder)).path
        blob_list == ListBlobs(st, real_key)
    IN  IF get_storage_client(cn) = "raise" THEN Swallow(NOT_SUPPORTED, st)
        ELSE IF storage_type = "aws" THEN Swallow(ATTRIBUTE_ERROR, st)
        ELSE IF storage_type = "azure"
        THEN IF Refused(cn, fail) THEN Swallow(BACKEND_ERROR, st)
             ELSE Return("None", [n \in (DOMAIN st) \ (blob_list \ kept) |-> st[n]])
        ELSE Swallow(UNKNOWN_CLIENT, st)

check_if_file_exists(c, key, st, fail) ==
    LET storage_type == get_storage_client_type(c)
        real_key == parse_wasb_url(safe_uri(c, key)).path
    IN  IF get_storage_client(c) = "raise" THEN Raise(NOT_SUPPORTED, st)
        ELSE IF safe_uri(c, key) = TYPE_ERROR THEN Raise("TypeError", st)
        ELSE IF storage_type = "aws" THEN Return(FALSE, st)
        ELSE IF storage_type = "azure"
        THEN IF real_key = <<>> THEN Raise(VALUE_ERROR, st)
             ELSE IF Refused(c, fail) THEN Raise(BACKEND_ERROR, st)
             ELSE Return(real_key \in DOMAIN st, st)
        ELSE Return(FALSE, st)

----------------------------------------------------------------------------
(* read_file and the file-name tests of lines 166-196 *)

UPPER == <<"A", "B", "C", "D", "E", "F", "G", "H", "I", "J", "K", "L", "M",
           "N", "O", "P", "Q", "R", "S", "T", "U", "V", "W", "X", "Y", "Z">>
LOWER == <<"a", "b", "c", "d", "e", "f", "g", "h", "i", "j", "k", "l", "m",
           "n", "o", "p", "q", "r", "s", "t", "u", "v", "w", "x", "y", "z">>

LowerChar(ch) ==
    IF \E i \in 1..Len(UPPER) : UPPER[i] = ch
    THEN LOWER[CHOOSE i \in 1..Len(UPPER) : UPPER[i] = ch]
    ELSE ch

\* str.lower
Lower(s) == [i \in 1..Len(s) |-> LowerChar(s[i])]

DOT_GZ == <<".", "g", "z">>
DOT_GZIP == <<".", "g", "z", "i", "p">>
DOT_TAR == <<".", "t", "a", "r">>
DOT_ZIP == <<".", "z", "i", "p">>
DOT_JSON == <<".", "j", "s", "o", "n">>
DOT_CSV == <<".", "c", "s", "v">>
DOT_TXT == <<".", "t", "x", "t">>

is_compressed_file(file_name) ==
    \/ EndsWith(Lower(file_name), DOT_GZ)
    \/ EndsWith(Lower(file_name), DOT_GZIP)
    \/ EndsWith(Lower(file_name), DOT_TAR)
    \/ EndsWith(Lower(file_name), DOT_ZIP)

is_json_file(file_name) ==
    EndsWith(Lower(file_name), DOT_JSON) \/ EndsWith(Lower(file_name), DOT_JSON \o DOT_GZ)

is_csv_file(file_name) ==
    EndsWith(Lower(file_name), DOT_CSV) \/ EndsWith(Lower(file_name), DOT_CSV \o DOT_GZ)

is_txt_file(file_name) ==
    EndsWith(Lower(file_name), DOT_TXT) \/ EndsWith(Lower(file_name), DOT_TXT \o DOT_GZ)

\* what read_file returns: the bytes of the blob, their text, or None
Bytes(d) == [type |-> "bytes", data |-> d]
Text(d) == [type |-> "str", data |-> d]
NONE == [type |-> "NoneType", data |-> 0]

\* the handler of line 362: any exception gives None
ReadNone(e, st) == [out |-> "return", val |-> NONE, err |-> e, store |-> st]

\* the mutant of Decoded: the test for a compressed file is left out
DecodedCompressedToo(key, d) ==
    IF is_json_file(key) \/ is_csv_file(key) \/ is_txt_file(key) THEN Text(d) ELSE Bytes(d)

\* lines 355-358: data.decode('utf-8') by the name of the key
Decoded(key, d) ==
    IF (is_json_file(key) \/ is_csv_file(key) \/ is_txt_file(key)) /\ ~is_compressed_file(key)
    THEN Text(d)
    ELSE Bytes(d)

read_file(c, key, st, fail) ==
    LET cn == safe_conn(c)
        storage_type == get_storage_client_type(cn)
        real_key == parse_wasb_url(safe_uri(cn, key)).path
    IN  IF get_storage_client(cn) = "raise" THEN Raise(NOT_SUPPORTED, st)
        ELSE IF storage_type = "aws" THEN ReadNone(ATTRIBUTE_ERROR, st)
        ELSE IF storage_type = "azure"
        THEN IF real_key = <<>> THEN ReadNone(VALUE_ERROR, st)
             ELSE IF Refused(cn, fail) THEN ReadNone(BACKEND_ERROR, st)
             ELSE IF real_key \notin DOMAIN st THEN ReadNone(NOT_FOUND, st)
             ELSE Return(Decoded(key, st[real_key].data), st)
        ELSE ReadNone(UNKNOWN_CLIENT, st)

----------------------------------------------------------------------------
(* rename_file and move_file make several requests: each request is a step *)

Continue(st) == [out |-> "continue", val |-> "None", err |-> "none", store |-> st]

\* the poll found the copy pending: sleep and poll again
Sleep(st) == [out |-> "sleep", val |-> "None", err |-> "none", store |-> st]

\* dest_blob.start_copy_from_url(source_blob.url): the service starts a copy
\* of the source's data; the destination is a zero-length blob until the
\* copy ends
start_copy_from_url(st, src, dst) ==
    Put(st, dst, [data |-> IF dst = src THEN st[src].data ELSE 0,
                  copy |-> "pending", from |-> st[src].data])

\* the mutant of EndCopy: the copy ends and delivers nothing
EndCopyEmpty(st, n, status) ==
    [st EXCEPT ![n] = [data |-> st[n].data, copy |-> status, from |-> st[n].from]]

\* the container after the service has ended the pending copy to blob n with
\* status: on success the destination gets the data
EndCopy(st, n, status) ==
    [st EXCEPT ![n] = [data |-> IF status = "success" THEN st[n].from ELSE st[n].data,
                       copy |-> status, from |-> st[n].from]]

\* lines 456-479: safe_conn, delete_file of the new key, the client and the
\* two blob clients
rename_file_begin(c, old_file_key, new_file_key, st, fail) ==
    LET cn == safe_conn(c)
        d == delete_file(cn, new_file_key, st, fail)
        storage_type == get_storage_client_type(cn)
        real_old_key == parse_wasb_url(safe_uri(cn, old_file_key)).path
        real_new_key == parse_wasb_url(safe_uri(cn, new_file_key)).path
    IN  IF d.out = "raise" THEN Swallow(d.err, st)
        ELSE IF storage_type = "aws" THEN Swallow(ATTRIBUTE_ERROR, d.store)
        ELSE IF storage_type = "azure"
        THEN IF real_old_key = <<>> \/ real_new_key = <<>>
             THEN Swallow(VALUE_ERROR, d.store)
             ELSE Continue(d.store)
        ELSE Swallow(UNKNOWN_CLIENT, d.store)

\* line 482
rename_file_copy(c, old_file_key, new_file_key, st, fail) ==
    LET cn == safe_conn(c)
        real_old_key == parse_wasb_url(safe_uri(cn, old_file_key)).path
        real_new_key == parse_wasb_url(safe_uri(cn, new_file_key)).path
    IN  IF Refused(cn, fail) THEN Swallow(BACKEND_ERROR, st)
        ELSE IF real_old_key \notin DOMAIN st THEN Swallow(NOT_FOUND, st)
        ELSE Continue(start_copy_from_url(st, real_old_key, real_new_key))

\* the mutant of rename_file_poll: the loop is left after one look at the
\* status, whatever it is
rename_file_poll_once(c, new_file_key, st, fail) ==
    IF Refused(safe_conn(c), fail) THEN Swallow(BACKEND_ERROR, st)
    ELSE IF parse_wasb_url(safe_uri(safe_conn(c), new_file_key)).path \notin DOMAIN st
    THEN Swallow(NOT_FOUND, st)
    ELSE Continue(st)

\* lines 484-485: one evaluation of the loop's condition
rename_file_poll(c, new_file_key, st, fail) ==
    LET cn == safe_conn(c)
        real_new_key == parse_wasb_url(safe_uri(cn, new_file_key)).path
    IN  IF Refused(cn, fail) THEN Swallow(BACKEND_ERROR, st)
        ELSE IF real_new_key \notin DOMAIN st THEN Swallow(NOT_FOUND, st)
        ELSE IF st[real_new_key].copy = "pending" THEN Sleep(st)
        ELSE Continue(st)

\* the mutant of rename_file_delete: the source is left where it is
rename_file_delete_kept(c, old_file_key, st, fail, status) == Return("None", st)

\* line 486: the loop has ended with status
rename_file_delete(c, old_file_key, st, fail, status) ==
    LET cn == safe_conn(c)
        real_old_key == parse_wasb_url(safe_uri(cn, old_file_key)).path
    IN  IF Refused(cn, fail) THEN Swallow(BACKEND_ERROR, st)
        ELSE IF real_old_key \notin DOMAIN st THEN Swallow(NOT_FOUND, st)
        ELSE Return("None", Remove(st, real_old_key))

\* lines 866-886: the descriptors, the clients of source and destination
\* (dest_conn is None: the source's descriptor) and the start of the copy
move_file_begin(src_conn, src_key, dest_key, st, fail) ==
    LET cn == safe_conn(src_conn)
        src_real_key == parse_wasb_url(safe_uri(cn, src_key)).path
        dest_real_key == parse_wasb_url(safe_uri(cn, dest_key)).path
    IN  IF get_storage_client(cn) = "raise" THEN Raise(NOT_SUPPORTED, st)
        ELSE IF get_storage_client(cn) = "None" THEN Raise(ATTRIBUTE_ERROR, st)
        ELSE IF src_real_key = <<>> \/ dest_real_key = <<>> THEN Raise(VALUE_ERROR, st)
        ELSE IF Refused(cn, fail) THEN Raise(BACKEND_ERROR, st)
        ELSE IF src_real_key \notin DOMAIN st THEN Raise(NOT_FOUND, st)
        ELSE Continue(start_copy_from_url(st, src_real_key, dest_real_key))

\* lines 888-890: one get_blob_properties of the destination
move_file_poll(src_conn, dest_key, st, fail) ==
    LET cn == safe_conn(src_conn)
        dest_real_key == parse_wasb_url(safe_uri(cn, dest_key)).path
    IN  IF Refused(cn, fail) THEN Raise(BACKEND_ERROR, st)
        ELSE IF dest_real_key \notin DOMAIN st THEN Raise(NOT_FOUND, st)
        ELSE IF st[dest_real_key].copy = "pending" THEN Sleep(st)
        ELSE Continue(st)

COPY_FAILED == "Failed to copy blob"

\* the mutant of move_file_check: the status the loop ended with is not looked at
move_file_check_unchecked(status, delete_src_key, st) ==
    IF delete_src_key THEN Continue(st) ELSE Return("None", st)

\* lines 892-896: what follows the loop, by the status it ended with
move_file_check(status, delete_src_key, st) ==
    IF status # "success" THEN Raise(COPY_FAILED, st)
    ELSE IF delete_src_key THEN Continue(st)
    ELSE Return("None", st)

\* line 897
move_file_delete(src_conn, src_key, st, fail) ==
    LET cn == safe_conn(src_conn)
        src_real_key == parse_wasb_url(safe_uri(cn, src_key)).path
    IN  IF Refused(cn, fail) THEN Raise(BACKEND_ERROR, st)
        ELSE IF src_real_key \notin DOMAIN st THEN Raise(NOT_FOUND, st)
        ELSE Return("None", Remove(st, src_real_key))

----------------------------------------------------------------------------
(* rename_folder calls delete_folder, list_files and, for each listed file, *)
(* rename_file; no other caller works on the container meanwhile, so each   *)
(* rename_file runs from its first request to its last, with the status its *)
(* copy ends with and whether the backend refuses its requests.            *)

\* lines 484-486: the loop sees the ended copy, then the source is deleted
rename_file_wait(c, old_file_key, new_file_key, st, fail, status) ==
    LET p == rename_file_poll(c, new_file_key,
                 EndCopy(st, parse_wasb_url(safe_uri(safe_conn(c), new_file_key)).path, status),
                 fail)
    IN  IF p.out = "continue" THEN rename_file_delete(c, old_file_key, p.store, fail, status)
        ELSE p

\* lines 482-486
rename_file_copied(c, old_file_key, new_file_key, st, fail, status) ==
    LET cp == rename_file_copy(c, old_file_key, new_file_key, st, fail)
    IN  IF cp.out = "continue"
        THEN rename_file_wait(c, old_file_key, new_file_key, cp.store, fail, status)
        ELSE cp

rename_file(c, old_file_key, new_file_key, st, fail, status) ==
    LET b == rename_file_begin(c, old_file_key, new_file_key, st, fail)
    IN  IF b.out = "continue"
        THEN rename_file_copied(c, old_file_key, new_file_key, b.store, fail, status)
        ELSE b

\* lines 500-503: a key that ends with "/" is cut to key[:1], its first
\* character
FolderKey(folder_key) ==
    IF EndsWith(folder_key, SLASH) THEN SubSeq(folder_key, 1, 1) ELSE folder_key

\* line 514
NewKey(old_folder_key, new_folder_key, file) ==
    FolderKey(new_folder_key) \o Drop(file, Len(FolderKey(old_folder_key)))

\* lines 499-511: the new folder is deleted, the old one listed
rename_folder_begin(c, old_folder_key, new_folder_key, st, fail) ==
    list_files(safe_conn(c), FolderKey(old_folder_key),
               delete_folder(safe_conn(c), FolderKey(new_folder_key), st, fail, {}).store,
               fail)

\* lines 514-515, for one file of the list
rename_folder_file(c, old_folder_key, new_folder_key, file, st, fail, status) ==
    rename_file(safe_conn(c), file, NewKey(old_folder_key, new_folder_key, file),
                st, fail, status)

\* line 517
rename_folder_end(c, old_folder_key, st, fail) ==
    delete_folder(safe_conn(c), FolderKey(old_folder_key), st, fail, {})

----------------------------------------------------------------------------
(* The directory operations, on the hierarchical namespace of the account:  *)
(* a directory is a path of the container, here the blob of its name, and   *)
(* its members are the paths under name + "/".                              *)

NOT_YET_SUPPORTED == "not yet supported"

\* an outcome with what the error names, the client and the requests made
DirOutcome(r, named, client, sent) ==
    [out |-> r.out, val |-> r.val, err |-> r.err, store |-> r.store,
     named |-> named, client |-> client, sent |-> sent]

\* the request of a DataLakeServiceClient that the backend refused
DirRefused(st) == DirOutcome(Raise(BACKEND_ERROR, st), <<>>, "DataLakeServiceClient", TRUE)

\* the request of a DataLakeServiceClient that was carried out
DirDone(st) == DirOutcome(Return("None", st), <<>>, "DataLakeServiceClient", TRUE)

\* the request for a directory that does not exist
DirMissing(st) == DirOutcome(Raise(NOT_FOUND, st), <<>>, "DataLakeServiceClient", TRUE)

\* the mutant of not_yet_supported: every storage type goes on
not_yet_supported_skipped(storage_type) == FALSE

\* lines 906, 932, 953
not_yet_supported(storage_type) == storage_type # "azure"

\* lines 907, 933, 954: the error names the storage type and the operation
Unsupported(storage_type, operation, st) ==
    DirOutcome(Raise(NOT_YET_SUPPORTED, st), <<storage_type, operation>>, "none", FALSE)

\* the directory name and its members
Members(st, name) ==
    IF name = <<>> THEN DOMAIN st
    ELSE { n \in DOMAIN st : n = name \/ StartsWith(n, name \o SLASH) }

create_directory(c, key, st, fail) ==
    LET cn == safe_conn(c)
        directory_name == parse_wasb_url(safe_uri(cn, key)).path
    IN  IF not_yet_supported(get_storage_client_type(cn))
        THEN Unsupported(get_storage_client_type(cn), "create_directory", st)
        ELSE IF Refused(cn, fail) THEN DirRefused(st)
        ELSE IF directory_name = <<>> THEN DirDone(st)
        ELSE DirDone(Put(st, directory_name, Blob(0)))

delete_directory(c, key, st, fail) ==
    LET cn == safe_conn(c)
        directory_name == parse_wasb_url(safe_uri(cn, key)).path
    IN  IF not_yet_supported(get_storage_client_type(cn))
        THEN Unsupported(get_storage_client_type(cn), "delete_directory", st)
        ELSE IF Refused(cn, fail) THEN DirRefused(st)
        ELSE IF Members(st, directory_name) = {} THEN DirMissing(st)
        ELSE DirDone([n \in (DOMAIN st) \ Members(st, directory_name) |-> st[n]])

\* the paths after the members of src have moved under dest, which they
\* replace
Moved(st, src, dest) ==
    LET kept == (DOMAIN st) \ (Members(st, src) \cup Members(st, dest))
        new == { dest \o Drop(n, Len(src)) : n \in Members(st, src) }
    IN  [n \in kept \cup new |->
            IF n \in new
            THEN st[CHOOSE m \in Members(st, src) : dest \o Drop(m, Len(src)) = n]
            ELSE st[n]]

rename_directory(c, src_key, dest_key, st, fail) ==
    LET cn == safe_conn(c)
        source_directory == parse_wasb_url(safe_uri(cn, src_key)).path
        destination_directory == parse_wasb_url(safe_uri(cn, dest_key)).path
    IN  IF not_yet_supported(get_storage_client_type(cn))
        THEN Unsupported(get_storage_client_type(cn), "rename_directory", st)
        ELSE IF Refused(cn, fail) \/ source_directory = <<>> \/ destination_directory = <<>>
        THEN DirRefused(st)
        ELSE IF Members(st, source_directory) = {} THEN DirMissing(st)
        ELSE DirDone(Moved(st, source_directory, destination_directory))

----------------------------------------------------------------------------
(* The calls.  A behaviour is one call of one operation, made with the     *)
(* caller's descriptor on a container left by earlier calls.               *)

\* the descriptors of the callers
ConnInputs ==
    [scheme : {WASBS}, shape : Shapes, root : {<<>>, <<"r">>},
     form : {"str", "dict"}, cred : {TRUE}]
    \cup [scheme : {WASBS}, shape : {"path"}, root : {<<>>}, form : {"dict"}, cred : {FALSE}]
    \cup [scheme : {S3, GS, FTP, WASB}, shape : {"path"}, root : {<<>>},
          form : {"str", "dict"}, cred : {TRUE}]

InputDesc(i) == Desc(i.scheme, i.shape, i.root, i.form, i.cred)

\* the relative keys the callers pass
CallKeys == { LOGS, LOGS \o A_TXT, LOGS \o B_TXT }

\* a blob no key of the callers names
STRAY == <<"z">>

\* the blob names the container may hold before the call; a descriptor that
\* gets no BlobServiceClient has no container any request reaches
InitNames(c) ==
    IF get_storage_client(c) = "BlobServiceClient"
    THEN ({ RealKey(c, k) : k \in CallKeys } \ {<<>>}) \cup {STRAY}
    ELSE {}

\* the blobs whose content no call reads or copies: the folder marker and the
\* stray blob
Markers(c) == { RealKey(c, LOGS), STRAY }

\* the call record: the operation and its arguments (a1, a2, data, flag),
\* where it stands (pc), how it ended (out, val, err), the copy status its loop
\* ended with, the container at the call (pre), the backend's answers to a
\* single-call operation (fail, kept), and what its delete requests did:
\* removed the destination (delDst), removed the source (delSrc), or were
\* lost in transport (delFail); for rename_folder, the listed files still to
\* rename (files) and whether a request was refused or a copy did not
\* succeed (lost); for a sequence of writes and a read, the data of the last
\* write_file of each key that raised nothing, and whether it replaced other
\* data written before (wrote); for the directory operations, the storage
\* type and the operation the error names (named), the client constructed
\* (client) and whether a request went to the backend (sent)
NoCall ==
    [op |-> "none", pc |-> "idle", a1 |-> <<>>, a2 |-> <<>>, data |-> 0, flag |-> FALSE,
     out |-> "none", val |-> "None", err |-> "none", status |-> "none",
     pre |-> <<>>, fail |-> FALSE, kept |-> {}, delDst |-> FALSE, delSrc |-> FALSE,
     delFail |-> FALSE, files |-> {}, lost |-> FALSE, wrote |-> <<>>,
     named |-> <<>>, client |-> "none", sent |-> FALSE]

NoInput == [scheme |-> WASBS, shape |-> "path", root |-> <<>>, form |-> "dict", key |-> A_TXT]

Init ==
    /\ conn \in { InputDesc(i) : i \in ConnInputs }
    /\ \E names \in SUBSET InitNames(conn) :
           \E d \in [names \ Markers(conn) -> Data] :
               store = [n \in names |-> Blob(IF n \in Markers(conn) THEN 1 ELSE d[n])]
    /\ call = NoCall
    /\ pin = NoInput
    /\ pout = [fn |-> "none"]

\* the call record of a call that has ended with result r
Ended(c0, r) == [c0 EXCEPT !.pc = "done", !.out = r.out, !.val = r.val, !.err = r.err]

\* the call record of a call that goes on at pc
Running(c0, pc) == [c0 EXCEPT !.pc = pc, !.out = "running"]

ListFiles ==
    /\ call.pc = "idle"
    /\ \E prefix \in CallKeys, fail \in BOOLEAN :
           LET r == list_files(conn, prefix, store, fail)
           IN  /\ call' = Ended([NoCall EXCEPT !.op = "list_files", !.a1 = prefix,
                                               !.pre = store, !.fail = fail], r)
               /\ store' = r.store
    /\ UNCHANGED <<conn, pin, pout>>

WriteFile ==
    /\ call.pc = "idle"
    /\ \E key \in CallKeys, data \in Data, fail \in BOOLEAN :
           LET r == write_file(conn, key, data, store, fail)
           IN  /\ call' = Ended([NoCall EXCEPT !.op = "write_file", !.a1 = key, !.data = data,
                                               !.pre = store, !.fail = fail], r)
               /\ store' = r.store
    /\ UNCHANGED <<conn, pin, pout>>

DeleteFile ==
    /\ call.pc = "idle"
    /\ \E key \in CallKeys, fail \in BOOLEAN :
           LET r == delete_file(conn, key, store, fail)
           IN  /\ call' = Ended([NoCall EXCEPT !.op = "delete_file", !.a1 = key,
                                               !.pre = store, !.fail = fail], r)
               /\ store' = r.store
    /\ UNCHANGED <<conn, pin, pout>>

\* the folders the callers delete: keys with and without the trailing "/"
FolderArgs == CallKeys \cup { <<"l", "o", "g", "s">> }

DeleteFolder ==
    /\ call.pc = "idle"
    /\ \E folder \in FolderArgs, fail \in BOOLEAN, kept \in SUBSET DOMAIN store :
           LET r == delete_folder(conn, folder, store, fail, kept)
           IN  /\ call' = Ended([NoCall EXCEPT !.op = "delete_folder", !.a1 = folder,
                                               !.pre = store, !.fail = fail, !.kept = kept], r)
               /\ store' = r.store
    /\ UNCHANGED <<conn, pin, pout>>

CheckIfFileExists ==
    /\ call.pc = "idle"
    /\ \E key \in CallKeys, fail \in BOOLEAN :
           LET r == check_if_file_exists(conn, key, store, fail)
           IN  /\ call' = Ended([NoCall EXCEPT !.op = "check_if_file_exists", !.a1 = key,
                                               !.pre = store, !.fail = fail], r)
               /\ store' = r.store
    /\ UNCHANGED <<conn, pin, pout>>

\* the step of a call in progress that got result r: it ends the call, or
\* the call goes on at pc
Step(c0, r, pc) == IF r.out = "continue" THEN Running(c0, pc) ELSE Ended(c0, r)

RenameFileBegin ==
    /\ call.pc = "idle"
    /\ \E old \in CallKeys, new \in CallKeys, fail \in BOOLEAN :
           LET r == rename_file_begin(conn, old, new, store, fail)
               c0 == [NoCall EXCEPT !.op = "rename_file", !.a1 = old, !.a2 = new,
                                    !.pre = store, !.delFail = fail,
                                    !.delDst = (DOMAIN r.store # DOMAIN store)]
           IN  /\ call' = Step(c0, r, "copy")
               /\ store' = r.store
    /\ UNCHANGED <<conn, pin, pout>>

RenameFileCopy ==
    /\ call.op = "rename_file" /\ call.pc = "copy"
    /\ \E fail \in BOOLEAN :
           LET r == rename_file_copy(conn, call.a1, call.a2, store, fail)
           IN  /\ call' = Step(call, r, "poll")
               /\ store' = r.store
    /\ UNCHANGED <<conn, pin, pout>>

RenameFilePoll ==
    /\ call.op = "rename_file" /\ call.pc = "poll"
    /\ \E fail \in BOOLEAN :
           LET r == rename_file_poll(conn, call.a2, store, fail)
               status == store[parse_wasb_url(safe_uri(safe_conn(conn), call.a2)).path].copy
           IN  /\ call' = IF r.out = "sleep" THEN call
                          ELSE IF r.out = "continue"
                          THEN Running([call EXCEPT !.status = status], "delete")
                          ELSE Ended(call, r)
               /\ store' = r.store
    /\ UNCHANGED <<conn, pin, pout>>

RenameFileDelete ==
    /\ call.op = "rename_file" /\ call.pc = "delete"
    /\ \E fail \in BOOLEAN :
           LET r == rename_file_delete(conn, call.a1, store, fail, call.status)
           IN  /\ call' = Ended([call EXCEPT !.delSrc = (DOMAIN r.store # DOMAIN store),
                                              !.delFail = (call.delFail \/ fail)], r)
               /\ store' = r.store
    /\ UNCHANGED <<conn, pin, pout>>

MoveFileBegin ==
    /\ call.pc = "idle"
    /\ \E src \in CallKeys, dest \in CallKeys, delete_src_key \in BOOLEAN, fail \in BOOLEAN :
           LET r == move_file_begin(conn, src, dest, store, fail)
               c0 == [NoCall EXCEPT !.op = "move_file", !.a1 = src, !.a2 = dest,
                                    !.flag = delete_src_key, !.pre = store]
           IN  /\ call' = Step(c0, r, "poll")
               /\ store' = r.store
    /\ UNCHANGED <<conn, pin, pout>>

MoveFilePoll ==
    /\ call.op = "move_file" /\ call.pc = "poll"
    /\ \E fail \in BOOLEAN :
           LET r == move_file_poll(conn, call.a2, store, fail)
               status == store[parse_wasb_url(safe_uri(safe_conn(conn), call.a2)).path].copy
               seen == [call EXCEPT !.status = status]
           IN  /\ call' = IF r.out = "sleep" THEN call
                          ELSE IF r.out = "continue"
                          THEN Step(seen, move_file_check(status, call.flag, store), "delete")
                          ELSE Ended(call, r)
               /\ store' = r.store
    /\ UNCHANGED <<conn, pin, pout>>

MoveFileDelete ==
    /\ call.op = "move_file" /\ call.pc = "delete"
    /\ \E fail \in BOOLEAN :
           LET r == move_file_delete(conn, call.a1, store, fail)
           IN  /\ call' = Ended([call EXCEPT !.delSrc = (DOMAIN r.store # DOMAIN store)], r)
               /\ store' = r.store
    /\ UNCHANGED <<conn, pin, pout>>

\* the service ends a pending copy: the destination gets the data, or the
\* copy fails or is aborted and the destination stays as it is
CopyEnds ==
    /\ \E n \in DOMAIN store, status \in {"success", "failed", "aborted"} :
           /\ store[n].copy = "pending"
           /\ store' = EndCopy(store, n, status)
    /\ UNCHANGED <<conn, call, pin, pout>>

Next ==
    \/ ListFiles
    \/ WriteFile
    \/ DeleteFile
    \/ DeleteFolder
    \/ CheckIfFileExists
    \/ RenameFileBegin
    \/ RenameFileCopy
    \/ RenameFilePoll
    \/ RenameFileDelete
    \/ MoveFileBegin
    \/ MoveFilePoll
    \/ MoveFileDelete
    \/ CopyEnds

Spec == Init /\ [][Next]_vars

----------------------------------------------------------------------------
(* The folder operations, on a container that holds a folder logs/, a       *)
(* sibling logs2/ and a folder arch/, each under the descriptor's root path *)

LOGS_DIR == <<"l", "o", "g", "s">>
ARCH_DIR == <<"a", "r", "c", "h">>
LOGS2 == <<"l", "o", "g", "s", "2", "/">>
ARCH == <<"a", "r", "c", "h", "/">>

FolderConnInputs ==
    [scheme : {WASBS}, shape : Shapes, root : {<<>>, <<"r">>}, form : {"dict"}, cred : {TRUE}]
    \cup [scheme : {S3}, shape : {"path"}, root : {<<>>}, form : {"dict"}, cred : {TRUE}]

\* the keys of the files the container may hold, relative to the root path
FolderFiles == { LOGS, LOGS \o A_TXT, LOGS2 \o A_TXT, ARCH \o A_TXT, ARCH \o B_TXT }

\* the files whose content differs from call to call
FolderData == { LOGS \o A_TXT, ARCH \o A_TXT }

\* the blob of the root path's key k
UnderRoot(root, k) == IF root = <<>> THEN k ELSE root \o SLASH \o k

InitFolder ==
    /\ \E i \in FolderConnInputs :
           /\ conn = InputDesc(i)
           /\ \E keys \in SUBSET FolderFiles :
                  \E d \in [keys \cap FolderData -> Data] :
                      store = [n \in { UnderRoot(i.root, k) : k \in keys } |->
                                  Blob(LET k == CHOOSE x \in keys : UnderRoot(i.root, x) = n
                                       IN  IF k \in FolderData THEN d[k] ELSE 1)]
    /\ call = NoCall
    /\ pin = NoInput
    /\ pout = [fn |-> "none"]

\* the folder keys the callers pass, with and without the trailing "/"
OldFolderArgs == { LOGS_DIR, LOGS }
NewFolderArgs == { ARCH_DIR, ARCH }

RenameFolderBegin ==
    /\ call.pc = "idle"
    /\ \E old \in OldFolderArgs, new \in NewFolderArgs, fail \in BOOLEAN :
           LET r == rename_folder_begin(conn, old, new, store, fail)
               c0 == [NoCall EXCEPT !.op = "rename_folder", !.a1 = old, !.a2 = new,
                                    !.pre = store, !.lost = fail]
           IN  /\ call' = IF r.out = "return"
                          THEN Running([c0 EXCEPT !.files = r.val], "files")
                          ELSE Ended(c0, r)
               /\ store' = delete_folder(safe_conn(conn), FolderKey(new), store, fail, {}).store
    /\ UNCHANGED <<conn, pin, pout>>

RenameFolderFile ==
    /\ call.op = "rename_folder" /\ call.pc = "files"
    /\ \E file \in call.files, fail \in BOOLEAN, status \in {"success", "failed"} :
           LET r == rename_folder_file(conn, call.a1, call.a2, file, store, fail, status)
           IN  /\ call' = [call EXCEPT !.files = call.files \ {file},
                                       !.lost = call.lost \/ fail \/ status # "success"
                                                    \/ r.err # "none"]
               /\ store' = r.store
    /\ UNCHANGED <<conn, pin, pout>>

RenameFolderEnd ==
    /\ call.op = "rename_folder" /\ call.pc = "files" /\ call.files = {}
    /\ \E fail \in BOOLEAN :
           LET r == rename_folder_end(conn, call.a1, store, fail)
           IN  /\ call' = Ended([call EXCEPT !.lost = call.lost \/ fail], r)
               /\ store' = r.store
    /\ UNCHANGED <<conn, pin, pout>>

\* the call record of a directory operation that has ended as r
DirEnded(c0, r) ==
    [Ended(c0, r) EXCEPT !.named = r.named, !.client = r.client, !.sent = r.sent]

DirArgs == { LOGS_DIR, ARCH_DIR }

CreateDirectory ==
    /\ call.pc = "idle"
    /\ \E key \in DirArgs, fail \in BOOLEAN :
           LET r == create_directory(conn, key, store, fail)
           IN  /\ call' = DirEnded([NoCall EXCEPT !.op = "create_directory", !.a1 = key,
                                                  !.pre = store, !.fail = fail], r)
               /\ store' = r.store
    /\ UNCHANGED <<conn, pin, pout>>

DeleteDirectory ==
    /\ call.pc = "idle"
    /\ \E key \in DirArgs, fail \in BOOLEAN :
           LET r == delete_directory(conn, key, store, fail)
           IN  /\ call' = DirEnded([NoCall EXCEPT !.op = "delete_directory", !.a1 = key,
                                                  !.pre = store, !.fail = fail], r)
               /\ store' = r.store
    /\ UNCHANGED <<conn, pin, pout>>

RenameDirectory ==
    /\ call.pc = "idle"
    /\ \E src_key \in DirArgs, dest_key \in DirArgs, fail \in BOOLEAN :
           LET r == rename_directory(conn, src_key, dest_key, store, fail)
           IN  /\ call' = DirEnded([NoCall EXCEPT !.op = "rename_directory", !.a1 = src_key,
                                                  !.a2 = dest_key, !.pre = store,
                                                  !.fail = fail], r)
               /\ store' = r.store
    /\ UNCHANGED <<conn, pin, pout>>

NextFolder ==
    \/ CreateDirectory
    \/ DeleteDirectory
    \/ RenameDirectory
    \/ DeleteFolder
    \/ RenameFolderBegin
    \/ RenameFolderFile
    \/ RenameFolderEnd

SpecFolder == InitFolder /\ [][NextFolder]_vars

----------------------------------------------------------------------------
(* Writes followed by a read: write_file once or twice, then one read_file  *)

A_JSON == <<"a">> \o DOT_JSON
A_JSON_GZ == <<"a">> \o DOT_JSON \o DOT_GZ
A_CSV == <<"a">> \o DOT_CSV
A_BIN == <<"a", ".", "b", "i", "n">>

FileKeys == { A_JSON, A_JSON_GZ, A_CSV, A_TXT, A_BIN }

FileConnInputs ==
    [scheme : {WASBS}, shape : {"path"}, root : {<<>>, <<"r">>}, form : {"dict"}, cred : {TRUE}]
    \cup [scheme : {WASBS}, shape : {"at"}, root : {<<>>, <<"r">>}, form : {"dict"}, cred : {TRUE}]
    \cup [scheme : {WASBS}, shape : {"path"}, root : {<<>>}, form : {"str"}, cred : {TRUE}]
    \cup [scheme : {S3, GS}, shape : {"path"}, root : {<<>>}, form : {"dict"}, cred : {TRUE}]

InitFile ==
    /\ conn \in { InputDesc(i) : i \in FileConnInputs }
    /\ \E d \in {0} \cup Data :
           store = IF d = 0 \/ RealKey(conn, A_JSON) = <<>> THEN <<>>
                   ELSE [n \in {RealKey(conn, A_JSON)} |-> Blob(d)]
    /\ call = NoCall
    /\ pin = NoInput
    /\ pout = [fn |-> "none"]

\* the record of the writes after a write_file of key that ended as r
Wrote(w, key, data, r) ==
    IF r.out = "return" /\ r.err = "none"
    THEN Put(w, key, [data |-> data, over |-> key \in DOMAIN w /\ w[key].data # data])
    ELSE w

WriteAgain ==
    /\ call.pc \in {"idle", "written"}
    /\ \E key \in FileKeys, data \in Data, fail \in BOOLEAN :
           LET r == write_file(conn, key, data, store, fail)
               c0 == [call EXCEPT !.op = "write_file",
                                  !.wrote = Wrote(call.wrote, key, data, r)]
           IN  /\ call' = IF r.out = "raise" THEN Ended(c0, r)
                          ELSE [c0 EXCEPT !.pc = IF call.pc = "idle" THEN "written"
                                                 ELSE "rewritten"]
               /\ store' = r.store
    /\ UNCHANGED <<conn, pin, pout>>

ReadFile ==
    /\ call.pc \in {"idle", "written", "rewritten"}
    /\ \E key \in FileKeys, fail \in BOOLEAN :
           LET r == read_file(conn, key, store, fail)
           IN  /\ call' = Ended([call EXCEPT !.op = "read_file", !.a1 = key,
                                             !.pre = store, !.fail = fail], r)
               /\ store' = r.store
    /\ UNCHANGED <<conn, pin, pout>>

NextFile == WriteAgain \/ ReadFile

SpecFile == InitFile /\ [][NextFile]_vars

----------------------------------------------------------------------------
(* The wait for the copy.  The caller's thread runs on: a call that can     *)
(* make its next request makes it.  Nothing makes the service end a copy.   *)

WaitConnInputs ==
    [scheme : {WASBS}, shape : {"path"}, root : {<<"r">>}, form : {"dict"}, cred : {TRUE}]

\* the container holds the two files, or one, or none
InitWait ==
    /\ Init
    /\ conn \in { InputDesc(i) : i \in WaitConnInputs }
    /\ DOMAIN store \subseteq { RealKey(conn, LOGS \o A_TXT), RealKey(conn, LOGS \o B_TXT) }

NextWait ==
    \/ RenameFileBegin
    \/ RenameFileCopy
    \/ RenameFilePoll
    \/ RenameFileDelete
    \/ MoveFileBegin
    \/ MoveFilePoll
    \/ MoveFileDelete
    \/ CopyEnds

\* the requests of the loop and after it that the backend answers
AfterCopy ==
    /\ RenameFilePoll \/ RenameFileDelete \/ MoveFilePoll \/ MoveFileDelete
    /\ call'.err # BACKEND_ERROR

\* weak fairness of AfterCopy, WF_vars(AfterCopy), with its enabling
\* condition written out: an answered request changes the state exactly
\* when the call is before its delete, or in its loop with a copy that is
\* not pending (while the copy is pending the loop sleeps and looks again)
WaitFair ==
    \/ []<>(~(\/ call.pc = "delete"
              \/ call.pc = "poll"
                  /\ ~(/\ parse_wasb_url(safe_uri(safe_conn(conn), call.a2)).path \in DOMAIN store
                       /\ store[parse_wasb_url(safe_uri(safe_conn(conn), call.a2)).path].copy
                              = "pending")))
    \/ []<><<AfterCopy>>_vars

SpecWait == InitWait /\ [][NextWait]_vars /\ WaitFair

----------------------------------------------------------------------------
(* Two callers rename at once: caller 1 renames logs/a.txt and caller 2     *)
(* logs/b.txt, both to logs/c.txt.  Here call holds the two calls (proc),   *)
(* the container before them (pre) and whether a request was refused in     *)
(* transport or a copy did not succeed (lost).                              *)

C_TXT == <<"c", ".", "t", "x", "t">>

Callers == {1, 2}

SrcOf(p) == IF p = 1 THEN LOGS \o A_TXT ELSE LOGS \o B_TXT

DEST == LOGS \o C_TXT

RaceConnInputs ==
    [scheme : {WASBS}, shape : {"path"}, root : {<<>>, <<"r">>}, form : {"dict"}, cred : {TRUE}]

\* the service's answer to a copy onto a blob whose copy is pending
PENDING_COPY == "PendingCopyOperation"

InitRace ==
    /\ conn \in { InputDesc(i) : i \in RaceConnInputs }
    /\ \E da \in Data, db \in Data, dc \in {0} \cup Data :
           store = [n \in { RealKey(conn, SrcOf(1)), RealKey(conn, SrcOf(2)) }
                           \cup (IF dc = 0 THEN {} ELSE { RealKey(conn, DEST) }) |->
                       Blob(IF n = RealKey(conn, SrcOf(1)) THEN da
                            ELSE IF n = RealKey(conn, SrcOf(2)) THEN db
                            ELSE dc)]
    /\ call = [proc |-> [p \in Callers |-> [pc |-> "idle", err |-> "none", status |-> "none"]],
               pre |-> store, lost |-> FALSE]
    /\ pin = NoInput
    /\ pout = [fn |-> "none"]

\* the calls after caller p's request got result r: the call goes on at pc
\* or has ended
RaceStep(p, r, pc, status, fail) ==
    [call EXCEPT !.proc[p] = [pc |-> IF r.out = "continue" THEN pc ELSE "done",
                              err |-> r.err, status |-> status],
                 !.lost = call.lost \/ fail]

RaceBegin(p) ==
    /\ call.proc[p].pc = "idle"
    /\ \E fail \in BOOLEAN :
           LET r == rename_file_begin(conn, SrcOf(p), DEST, store, fail)
           IN  /\ call' = RaceStep(p, r, "copy", "none", fail)
               /\ store' = r.store
    /\ UNCHANGED <<conn, pin, pout>>

\* a copy onto a destination whose copy is pending is refused by the service
\* or takes the place of the pending copy
RaceCopy(p) ==
    /\ call.proc[p].pc = "copy"
    /\ \E fail \in BOOLEAN, conflict \in BOOLEAN :
           LET r == IF /\ conflict
                       /\ RealKey(conn, DEST) \in DOMAIN store
                       /\ store[RealKey(conn, DEST)].copy = "pending"
                    THEN Swallow(PENDING_COPY, store)
                    ELSE rename_file_copy(conn, SrcOf(p), DEST, store, fail)
           IN  /\ call' = RaceStep(p, r, "poll", "none", fail)
               /\ store' = r.store
    /\ UNCHANGED <<conn, pin, pout>>

RacePoll(p) ==
    /\ call.proc[p].pc = "poll"
    /\ \E fail \in BOOLEAN :
           LET r == rename_file_poll(conn, DEST, store, fail)
           IN  /\ r.out # "sleep"
               /\ call' = RaceStep(p, r, "delete",
                                   IF r.out = "continue"
                                   THEN store[RealKey(conn, DEST)].copy ELSE "none",
                                   fail)
               /\ store' = r.store
    /\ UNCHANGED <<conn, pin, pout>>

RaceDelete(p) ==
    /\ call.proc[p].pc = "delete"
    /\ \E fail \in BOOLEAN :
           LET r == rename_file_delete(conn, SrcOf(p), store, fail, call.proc[p].status)
           IN  /\ call' = RaceStep(p, r, "done", call.proc[p].status, fail)
               /\ store' = r.store
    /\ UNCHANGED <<conn, pin, pout>>

RaceCopyEnds ==
    /\ \E n \in DOMAIN store, status \in {"success", "failed"} :
           /\ store[n].copy = "pending"
           /\ store' = EndCopy(store, n, status)
           /\ call' = [call EXCEPT !.lost = call.lost \/ status # "success"]
    /\ UNCHANGED <<conn, pin, pout>>

NextRace ==
    \/ \E p \in Callers : RaceBegin(p)
    \/ \E p \in Callers : RaceCopy(p)
    \/ \E p \in Callers : RacePoll(p)
    \/ \E p \in Callers : RaceDelete(p)
    \/ RaceCopyEnds

SpecRace == InitRace /\ [][NextRace]_vars

----------------------------------------------------------------------------
(* Properties of the calls *)

\* the blob name the call's descriptor gives a key
Real(key) == parse_wasb_url(safe_uri(safe_conn(conn), key)).path

\* the input the caller's descriptor was built from
ConnInput == CHOOSE i \in ConnInputs : InputDesc(i) = conn

\* C1: move_file with delete_src_key deletes the source only after it has
\* seen the copy status "success"; when the status it ends with is not
\* "success", the source is still there, with its data, when move_file ends.
C1_MoveDeletesOnlyAfterSuccess ==
    (call.op = "move_file" /\ call.flag) =>
        /\ call.pc = "delete" => call.status = "success"
        /\ call.delSrc => call.status = "success"
        /\ (call.pc = "done" /\ call.status # "success" /\ Real(call.a1) \in DOMAIN call.pre)
               => /\ Real(call.a1) \in DOMAIN store
                  /\ Real(call.a1) # Real(call.a2)
                         => store[Real(call.a1)] = call.pre[Real(call.a1)]

\* a move that has deleted its source
C1_Witness ==
    /\ call.op = "move_file" /\ call.flag /\ call.pc = "done"
    /\ call.delSrc /\ call.status = "success" /\ call.out = "return"
    /\ Real(call.a1) \notin DOMAIN store

\* a move whose copy has failed
C1_WitnessFailed ==
    /\ call.op = "move_file" /\ call.flag /\ call.pc = "done"
    /\ call.status = "failed" /\ Real(call.a1) \in DOMAIN store

\* C2: rename_file deletes the source only after the copy is confirmed:
\* when the copy call fails or the loop ends with a status other than
\* "success", the source still exists when rename_file returns (stated for
\* a source and a destination that are different blobs).
C2_RenameKeepsSourceUnlessSuccess ==
    (/\ call.op = "rename_file" /\ call.pc = "done"
     /\ Real(call.a1) # Real(call.a2)
     /\ Real(call.a1) \in DOMAIN call.pre
     /\ call.status # "success")
        => Real(call.a1) \in DOMAIN store

\* C3: rename_file and move_file end by raising when the copy status their
\* loop ended with is not "success".
C3_FailedCopyRaises ==
    (/\ call.op \in {"rename_file", "move_file"} /\ call.pc = "done"
     /\ call.status \notin {"none", "success"})
        => call.out = "raise"

\* the end state C4 describes: the destination holds the source's data and
\* the source is gone, the old destination having been deleted first
RenamedOver ==
    /\ call.delDst
    /\ Real(call.a2) \in DOMAIN store
    /\ store[Real(call.a2)].data = call.pre[Real(call.a1)].data
    /\ Real(call.a1) \notin DOMAIN store

\* a rename onto an existing destination whose copy has succeeded
RenameOntoExisting ==
    /\ call.op = "rename_file" /\ call.pc = "done"
    /\ Real(call.a1) \in DOMAIN call.pre
    /\ Real(call.a2) \in DOMAIN call.pre
    /\ call.status = "success"

LogsBlobs == { LOGS, LOGS \o A_TXT, LOGS \o B_TXT }

\* a listing that has returned its keys
Listed == call.op = "list_files" /\ call.pc = "done" /\ call.out = "return"

RootPrefix == IF ConnInput.root = <<>> THEN <<>> ELSE ConnInput.root \o SLASH

ConnScheme == parse_cloud_storage_uri(conn.BUCKET_URI).scheme

\* C7: with a descriptor of an unrecognised scheme, of the gs scheme or
\* without its credential, every operation ends by raising to its caller.
C7_ConfigErrorsRaise ==
    (call.pc = "done" /\ (ConnScheme \notin {S3, WASB, WASBS} \/ ~conn.cred))
        => call.out = "raise"

SingleCalls ==
    {"list_files", "write_file", "delete_file", "delete_folder", "check_if_file_exists"}

\* the single-call operation op with the arguments and the backend's
\* answers of the call record k, made with descriptor c on container st
SingleCall(k, c, st) ==
    CASE k.op = "list_files" -> list_files(c, k.a1, st, k.fail)
      [] k.op = "write_file" -> write_file(c, k.a1, k.data, st, k.fail)
      [] k.op = "delete_file" -> delete_file(c, k.a1, st, k.fail)
      [] k.op = "delete_folder" -> delete_folder(c, k.a1, st, k.fail, k.kept)
      [] k.op = "check_if_file_exists" -> check_if_file_exists(c, k.a1, st, k.fail)

\* the call ended as r ends: it returned the same value or raised the same
\* error, and left the container r leaves
EndedAs(r) ==
    /\ call.out = r.out
    /\ store = r.store
    /\ r.out = "return" => call.val = r.val
    /\ r.out = "raise" => call.err = r.err

\* C9: a call made with the JSON text of a descriptor has the result, the
\* error and the final container of the same call made with the mapping.
C9_TextSameAsMapping ==
    (call.pc = "done" /\ call.op \in SingleCalls /\ conn.form = "str")
        => EndedAs(SingleCall(call, safe_conn(conn), call.pre))

----------------------------------------------------------------------------
(* The pure functions, applied to one input each *)

PureInputs ==
    [scheme : {S3, GS, FTP, WASB, WASBS}, shape : Shapes, root : Roots,
     form : {"str", "dict"}, key : Keys]

PinDesc == Desc(pin.scheme, pin.shape, pin.root, pin.form, TRUE)

InitPure ==
    /\ pin \in { i \in PureInputs : i.scheme \in {WASB, WASBS} \/ i.shape = "path" }
    /\ pout = [fn |-> "none"]
    /\ store = <<>>
    /\ conn = PinDesc
    /\ call = NoCall

ApplyParseWasbUrl ==
    /\ pout.fn = "none"
    /\ pout' = [fn |-> "parse_wasb_url",
                val |-> parse_wasb_url(safe_uri(safe_conn(PinDesc), pin.key))]
    /\ UNCHANGED <<store, conn, call, pin>>

ApplyGetStorageClientType ==
    /\ pout.fn = "none"
    /\ pout' = [fn |-> "get_storage_client_type", val |-> get_storage_client_type(PinDesc)]
    /\ UNCHANGED <<store, conn, call, pin>>

ApplyCleanoutPrefix ==
    /\ pout.fn = "none"
    /\ pout' = [fn |-> "cleanout_prefix",
                val |-> cleanout_prefix(PinDesc, RealKey(PinDesc, pin.key))]
    /\ UNCHANGED <<store, conn, call, pin>>

\* cleanout_prefix of the key as given
ApplyCleanoutKey ==
    /\ pout.fn = "none"
    /\ pout' = [fn |-> "cleanout_key", val |-> cleanout_prefix(PinDesc, pin.key)]
    /\ UNCHANGED <<store, conn, call, pin>>

NextPure ==
    \/ ApplyParseWasbUrl
    \/ ApplyGetStorageClientType
    \/ ApplyCleanoutPrefix
    \/ ApplyCleanoutKey

SpecPure == InitPure /\ [][NextPure]_vars

\* the path a URI names after its container: the root path, then the key
PinPath == IF pin.root = <<>> THEN pin.key ELSE pin.root \o SLASH \o pin.key

\* C6: parse_wasb_url yields (account, container, all remaining segments
\* joined by "/") for both accepted wasbs URI shapes.
C6_BothShapesSameTriple ==
    (pout.fn = "parse_wasb_url" /\ pin.scheme = WASBS)
        => pout.val = [account |-> ACCOUNT, container |-> CONTAINER, path |-> PinPath]

\* C8: the backend kind follows from the scheme alone: aws for s3, google
\* for gs, azure for both wasbs and wasb.
C8_KindByScheme ==
    pout.fn = "get_storage_client_type"
        => pout.val = (IF pin.scheme = S3 THEN "aws"
                       ELSE IF pin.scheme = GS THEN "google"
                       ELSE IF pin.scheme \in {WASB, WASBS} THEN "azure"
                       ELSE "None")

\* C10: cleanout_prefix applied to the real key of k returns k, for s3 and
\* both Azure URI shapes, with or without a root path.
C10_StripInvertsRealKey ==
    (pout.fn = "cleanout_prefix" /\ pin.scheme \in {S3, WASBS})
        => pout.val = pin.key

\* the root path of the input's descriptor, as the prefix of its keys
PinRootPrefix == IF pin.root = <<>> THEN <<>> ELSE pin.root \o SLASH

\* C11: cleanout_prefix returns unchanged every key that does not start with
\* the root prefix of the descriptor.
C11_NoRootPrefixNoChange ==
    (/\ pout.fn = "cleanout_key"
     /\ pin.scheme \in {S3, WASBS}
     /\ ~StartsWith(pin.key, PinRootPrefix))
        => pout.val = pin.key

----------------------------------------------------------------------------
(* Properties of the folder operations *)

\* a folder key with its trailing "/"
Dir(k) == IF EndsWith(k, SLASH) THEN k ELSE k \o SLASH

\* the blob names under the old and the new folder of the call
OldDir == RootPrefix \o Dir(call.a1)
NewDir == RootPrefix \o Dir(call.a2)

\* where a blob of the old folder belongs in the new folder
Renamed(n) == NewDir \o Drop(n, Len(OldDir))

\* a rename_folder that has returned with no request refused, no error and
\* every copy successful
FolderRenamed ==
    call.op = "rename_folder" /\ call.pc = "done" /\ call.out = "return" /\ ~call.lost

\* C12: after rename_folder, with or without trailing "/" on its prefixes
\* and every backend call succeeding, what the new folder held is removed,
\* every object of the old folder is in the new folder under its key with
\* the old prefix replaced, with the same content, and nothing is left in
\* the old folder.
C12_FolderMovedToNewPrefix ==
    FolderRenamed =>
        /\ \A n \in DOMAIN call.pre :
               StartsWith(n, OldDir)
                   => /\ Renamed(n) \in DOMAIN store
                      /\ store[Renamed(n)].data = call.pre[n].data
        /\ \A n \in DOMAIN store : ~StartsWith(n, OldDir)
        /\ \A n \in DOMAIN call.pre :
               (StartsWith(n, NewDir) /\ n \in DOMAIN store)
                   => \E m \in DOMAIN call.pre : StartsWith(m, OldDir) /\ Renamed(m) = n

----------------------------------------------------------------------------
(* Properties of the error handling *)

BestEffort == {"write_file", "delete_file", "delete_folder"}

\* C13: write_file, delete_file and delete_folder return normally whatever
\* fails in them: a backend request, a missing object, a backend no branch
\* matches.
C13_BestEffortReturns ==
    (call.pc = "done" /\ call.op \in BestEffort) => call.out = "return"

\* C14: with a descriptor of the aws or the azure backend, given as a
\* mapping, check_if_file_exists returns False when the backend's existence
\* probe fails in transport; it does not raise.
C14_ExistsAbsorbsTransportError ==
    (/\ call.pc = "done" /\ call.op = "check_if_file_exists"
     /\ ConnScheme \in {S3, WASBS} /\ conn.form = "dict" /\ conn.cred
     /\ Real(call.a1) # <<>>
     /\ call.fail)
        => (call.out = "return" /\ call.val = FALSE)

----------------------------------------------------------------------------
(* Properties of writes and reads *)

\* the keys with one of the text extensions .json, .csv, .txt, not compressed
TextKeys == { A_JSON, A_CSV, A_TXT }

\* a read_file, answered by the backend, of a key written before
ReadWritten ==
    /\ call.op = "read_file" /\ call.pc = "done"
    /\ call.a1 \in DOMAIN call.wrote
    /\ ~call.fail

\* C15: after write_file of key k with data d has succeeded, read_file of k
\* returns the text of d when k ends with .json, .csv or .txt, and the bytes
\* d when k is compressed (.json.gz) or has another extension; d is the data
\* of the last write of k.
C15_ReadReturnsLastWrite ==
    ReadWritten =>
        /\ call.out = "return"
        /\ call.val = IF call.a1 \in TextKeys THEN Text(call.wrote[call.a1].data)
                      ELSE Bytes(call.wrote[call.a1].data)

\* reads, after a second write of other data, of a text and a compressed key
C15_Witness ==
    /\ ReadWritten
    /\ call.wrote[call.a1].over
    /\ \/ call.a1 = A_JSON /\ call.val = Text(call.wrote[A_JSON].data)
       \/ call.a1 = A_JSON_GZ /\ call.val = Bytes(call.wrote[A_JSON_GZ].data)

\* a delete_folder of a wasbs descriptor that the backend has answered, each
\* delete_blob included
FolderDeleted ==
    /\ call.op = "delete_folder" /\ call.pc = "done"
    /\ ConnScheme = WASBS /\ conn.cred
    /\ ~call.fail /\ call.kept = {}

\* C16: after delete_folder(conn, prefix), every backend call succeeding, no
\* object whose key is under prefix + "/" and no marker object prefix + "/"
\* is left in the container.
C16_FolderEmptied ==
    FolderDeleted => \A n \in DOMAIN store : ~StartsWith(n, RootPrefix \o Dir(call.a1))

DirectoryOps == {"create_directory", "rename_directory", "delete_directory"}

\* C17: with an s3 descriptor, create_directory, rename_directory and
\* delete_directory raise a "not yet supported" error that names the storage
\* type and the operation, before any client is constructed and any request
\* is made.
C17_DirectoryOpsRejectAws ==
    (call.pc = "done" /\ call.op \in DirectoryOps /\ ConnScheme = S3)
        => /\ call.out = "raise"
           /\ call.err = NOT_YET_SUPPORTED
           /\ call.named = <<"aws", call.op>>
           /\ call.client = "none"
           /\ ~call.sent
           /\ store = call.pre

\* a rename_directory with an s3 descriptor that has raised
C17_Witness ==
    /\ call.pc = "done" /\ call.op = "rename_directory" /\ ConnScheme = S3
    /\ call.out = "raise" /\ call.named = <<"aws", "rename_directory">>

----------------------------------------------------------------------------
(* Properties of the wait for the copy *)

\* the call is in its loop
InLoop == call.op \in {"rename_file", "move_file"} /\ call.pc = "poll"

\* the copy to the destination of the call is pending
PendingDst == Real(call.a2) \in DOMAIN store /\ store[Real(call.a2)].copy = "pending"

\* C18 as stated: the loop of rename_file and move_file is left only when
\* the status observed is not "pending": while the copy is pending the call
\* does not go on and does not return.
C18_LoopLeftOnlyOnStatus ==
    [][(InLoop /\ call'.pc # "poll") => ~PendingDst]_vars

\* C18 as amended: the loop is left only when the status observed is not
\* "pending" or the request for the status raises, and a call in its loop
\* whose copy is no longer pending comes to its end.
C18_LoopLeftOnStatusOrError ==
    /\ [][(InLoop /\ call'.pc # "poll")
              => (~PendingDst \/ (call'.pc = "done" /\ call'.err = BACKEND_ERROR))]_vars
    /\ ((InLoop /\ ~PendingDst) ~> (call.pc = "done"))

\* a rename_file whose loop has seen the copy aborted
C18_Witness ==
    call.op = "rename_file" /\ call.pc = "done" /\ call.status = "aborted"

\* C19: rename_file with an s3 descriptor that carries its credentials makes
\* its three requests, delete of the destination, copy_object, delete of the
\* source, without a loop: when the backend refuses none of them, the call
\* ends without an error.
C19_AwsRenameCopies ==
    (/\ call.op = "rename_file" /\ call.pc = "done"
     /\ ConnScheme = S3 /\ conn.cred
     /\ ~call.delFail)
        => (call.out = "return" /\ call.err = "none")

----------------------------------------------------------------------------
(* Properties of two renames at once *)

\* both calls have ended, no copy is pending, no request was refused in
\* transport and no copy failed
RaceOver ==
    /\ \A p \in Callers : call.proc[p].pc = "done"
    /\ \A n \in DOMAIN store : store[n].copy # "pending"
    /\ ~call.lost

\* C20: when rename_file of a to c and rename_file of b to c run at once
\* with every copy succeeding, then in the end, whatever the order of their
\* requests, there is an object at c and its content is the content that a
\* or b had.
C20_LastWriteWins ==
    RaceOver =>
        /\ RealKey(conn, DEST) \in DOMAIN store
        /\ store[RealKey(conn, DEST)].data
               \in { call.pre[RealKey(conn, SrcOf(p))].data : p \in Callers }

\* the end of two renames whose requests overlapped: c has the content of
\* b, caller 1 has seen the copy succeed and a and b are gone
C20_Witness ==
    /\ RaceOver
    /\ call.pre[RealKey(conn, SrcOf(1))].data # call.pre[RealKey(conn, SrcOf(2))].data
    /\ store[RealKey(conn, DEST)].data = call.pre[RealKey(conn, SrcOf(2))].data
    /\ call.proc[1].status = "success"
    /\ DOMAIN store = { RealKey(conn, DEST) }

----------------------------------------------------------------------------
(* Properties of what a rename keeps *)

\* the blob of key holds the data the source of the call had before it
HoldsSource(key) ==
    /\ Real(key) \in DOMAIN store
    /\ store[Real(key)].data = call.pre[Real(call.a1)].data

\* C21: when rename_file returns, whatever the two keys (the same key
\* included) and however the copy ended, the content that was at the old
\* key before the call is at the old key or at the new key.
C21_RenameKeepsContent ==
    (/\ call.op = "rename_file" /\ call.pc = "done"
     /\ Real(call.a1) \in DOMAIN call.pre)
        => (HoldsSource(call.a1) \/ HoldsSource(call.a2))

\* the blob is under neither folder of the call
Outside(n) == ~StartsWith(n, OldDir) /\ ~StartsWith(n, NewDir)

\* C22: rename_folder leaves every object whose key is under neither
\* old_prefix + "/" nor new_prefix + "/" where it was, with its content:
\* an object of a sibling folder such as old_prefix + "2/" is not touched.
C22_RenameFolderFrame ==
    (call.op = "rename_folder" /\ call.pc = "done")
        => \A n \in (DOMAIN call.pre) \cup (DOMAIN store) :
               Outside(n) => /\ n \in DOMAIN call.pre
                             /\ n \in DOMAIN store
                             /\ store[n] = call.pre[n]

====
